---- MODULE Spec2Model ----
(***************************************************************************)
(* topic_filter.py of openag_brain: one EWMA filter per environmental      *)
(* variable, fed by the subscription on "<var>/raw" and republished on     *)
(* "<var>/measured".                                                       *)
(*                                                                         *)
(* Numbers are exact rationals n/d in lowest terms (the filter's floats    *)
(* are modelled as the reals they stand for).  Every Python value carries  *)
(* a kind, so that None, a number and a string can be compared.            *)
(***************************************************************************)
EXTENDS Integers, Sequences, FiniteSets

\* ------------------------------------------------------------------ bounds
MaxVars == 2        \* longest input sequence of variable identifiers
MaxSamples == 3     \* raw messages the bus hands to this node
MaxCalls == 3       \* calls made on the stand-alone filter
MaxPublishers == 2  \* publisher connections (receive threads) per raw topic

VarIds == {"air_temperature", "air_humidity"}

\* ------------------------------------------------------------------ values
None == [kind |-> "None", n |-> 0, d |-> 1]
Unset == [kind |-> "unset", n |-> 0, d |-> 1]
BadString == [kind |-> "str", n |-> 0, d |-> 1]

Abs(x) == IF x < 0 THEN -x ELSE x

RECURSIVE GCD(_, _)
GCD(x, y) == IF y = 0 THEN x ELSE GCD(y, x % y)

Num(n, d) ==
    LET g == GCD(Abs(n), d)
    IN  [kind |-> "num", n |-> n \div g, d |-> d \div g]

IsNum(x) == x.kind = "num"

RMul(x, y) == Num(x.n * y.n, x.d * y.d)
RAdd(x, y) == Num(x.n * y.d + y.n * x.d, x.d * y.d)
RSub(x, y) == Num(x.n * y.d - y.n * x.d, x.d * y.d)

One == Num(1, 1)

\* Well-formed samples (Float64 payloads) and the malformed payloads.
Samples == {Num(10, 1), Num(20, 1)}
Malformed == {None, BadString}
\* The samples fed to the stand-alone filter.
CallSamples == {Num(-5, 2), Num(0, 1), Num(5, 1), Num(10, 1), Num(20, 1)}

\* Smoothing coefficients of the stand-alone filter, all in (0,1].
Alphas == {Num(1, 10), Num(3, 10), Num(1, 2), One}

\* A coefficient other than the 0.3 of filter_topic.
ALPHA_Half == Num(1, 2)

\* EWMA(0.3) of filter_topic.
ALPHA == Num(3, 10)

\* ---------------------------------------------------------------- topics
\* The two suffixes exchanged.
RawTopic_Measured(env_var) == env_var \o "/measured"

RawTopic(env_var) == env_var \o "/raw"
MeasuredTopic(env_var) == env_var \o "/measured"

AllTopics == {RawTopic(v) : v \in VarIds} \cup {MeasuredTopic(v) : v \in VarIds}

\* One receive thread per publisher connection of a raw topic.
Conns == VarIds \X (1 .. MaxPublishers)

\* -------------------------------------------------------------- EWMA class
\* A constructor that seeds the average with zero.
EWMA_ZeroSeeded(a) == [a |-> a, average |-> Num(0, 1)]

\* EWMA.__init__
EWMA(a) == [a |-> a, average |-> None]

\* The right-hand side of line 36; a non-numeric operand raises TypeError.
CanBlend(sample, average) == IsNum(sample) /\ IsNum(average)

\* The weights exchanged: alpha on the old average.
Blend_Swapped(a, sample, average) ==
    RAdd(RMul(RSub(One, a), sample), RMul(a, average))

\* A sign slip in the weight of the old average: 1 + alpha.
Blend_PlusAlpha(a, sample, average) ==
    RAdd(RMul(a, sample), RMul(RAdd(One, a), average))

Blend(a, sample, average) == RAdd(RMul(a, sample), RMul(RSub(One, a), average))

\* What either exit of EWMA.__call__ hands back to the caller.
CallResult(f) == None

\* EWMA.__call__ run without interruption: the filter after the call, the
\* value returned, and whether the call raised.
EWMA_call(f, sample) ==
    IF f.average = None
    THEN [f |-> [f EXCEPT !.average = sample],
          ret |-> CallResult([f EXCEPT !.average = sample]), raised |-> FALSE]
    ELSE IF CanBlend(sample, f.average)
    THEN LET g == [f EXCEPT !.average = Blend(f.a, sample, f.average)]
         IN  [f |-> g, ret |-> CallResult(g), raised |-> FALSE]
    ELSE [f |-> f, ret |-> Unset, raised |-> TRUE]

\* ------------------------------------------------------------------- state
VARIABLES
    variables,   \* the argument of filter_all_variable_topics
    i,           \* how many of them the for loop has taken
    pc,          \* where the main thread is
    src_topic,   \* locals of the loop body
    dest_topic,
    pubs,        \* rospy.Publisher objects, in creation order: their topics
    filters,     \* EWMA objects, in creation order
    subs,        \* rospy.Subscriber objects: topic and the callback's closure
    threads,     \* the bus's receive threads
    nsent,       \* raw messages handed to this node so far
    delivered,   \* per subscription: the samples its callback was invoked with
    processed,   \* per filter: the samples stored into its average, in order
    published,   \* per topic: what this node has published on it
    result,      \* the value the last completed EWMA.__call__ returned
    returned     \* ft: the (sub, pub) filter_topic last returned;
                 \* bind: what filter_all_variable_topics returned

vars == <<variables, i, pc, src_topic, dest_topic, pubs, filters, subs,
          threads, nsent, delivered, processed, published, result, returned>>

\* A receive thread: the callbacks still to run for its message (the first is
\* running), the message, the value in hand, and what the running invocation
\* has itself stored into its filter.
Idle == [pc |-> "idle", cbs |-> <<>>, msg |-> None, tmp |-> None, own |-> None]

RECURSIVE SeqsUpTo(_, _)
SeqsUpTo(S, n) ==
    IF n = 0 THEN {<<>>}
    ELSE LET R == SeqsUpTo(S, n - 1)
         IN  R \cup {Append(s, x) : s \in {r \in R : Len(r) = n - 1}, x \in S}

Init ==
    /\ variables \in SeqsUpTo(VarIds, MaxVars)
    /\ i = 0
    /\ pc = "l66"
    /\ src_topic = ""
    /\ dest_topic = ""
    /\ pubs = <<>>
    /\ filters = <<>>
    /\ subs = <<>>
    /\ threads = [c \in Conns |-> Idle]
    /\ nsent = 0
    /\ delivered = <<>>
    /\ processed = <<>>
    /\ published = [t \in AllTopics |-> <<>>]
    /\ result = Unset
    /\ returned = [ft |-> <<>>, bind |-> Unset]

\* ------------------------------------------------------------ main thread
\* The bindings made so far: subscription, publisher and filter of each.
Bindings ==
    {[sub |-> k, pub |-> subs[k].cb.pub, filter |-> subs[k].cb.f] :
        k \in 1 .. Len(subs)}

\* A bind that hands the bindings it made back to its caller.
BindResult_Bindings(bs) == [kind |-> "bindings", items |-> bs]

\* filter_all_variable_topics falls off its end: the (sub, pub) pairs that
\* filter_topic returned are dropped and the caller gets None.
BindResult(bs) == None

\* A loop that refuses an empty sequence.
ForLoop_RejectEmpty ==
    /\ pc = "l66"
    /\ IF i < Len(variables)
       THEN /\ i' = i + 1
            /\ src_topic' = RawTopic(variables[i + 1])
            /\ dest_topic' = MeasuredTopic(variables[i + 1])
            /\ pc' = "l50"
       ELSE /\ pc' = IF variables = <<>> THEN "raised" ELSE "spin"
            /\ UNCHANGED <<i, src_topic, dest_topic>>
    /\ returned' = IF i < Len(variables) THEN returned
                   ELSE [returned EXCEPT !.bind = BindResult(Bindings)]
    /\ UNCHANGED <<variables, pubs, filters, subs, threads, nsent, delivered,
                   processed, published, result>>

\* A loop that, once exhausted, makes a second pass over the identifiers.
ForLoop_Again ==
    \/ /\ pc = "l66"
       /\ IF i < Len(variables)
          THEN /\ i' = i + 1
               /\ src_topic' = RawTopic(variables[i + 1])
               /\ dest_topic' = MeasuredTopic(variables[i + 1])
               /\ pc' = "l50"
          ELSE /\ pc' = "spin"
               /\ UNCHANGED <<i, src_topic, dest_topic>>
       /\ returned' = IF i < Len(variables) THEN returned
                      ELSE [returned EXCEPT !.bind = BindResult(Bindings)]
       /\ UNCHANGED <<variables, pubs, filters, subs, threads, nsent,
                      delivered, processed, published, result>>
    \/ /\ pc = "spin"
       /\ Len(subs) = Len(variables)
       /\ i > 0
       /\ i' = 0
       /\ pc' = "l66"
       /\ UNCHANGED <<variables, src_topic, dest_topic, pubs, filters, subs,
                      threads, nsent, delivered, processed, published, result,
                      returned>>

\* for env_var in variables: ... (lines 66-68), or rospy.spin() when exhausted
ForLoop ==
    /\ pc = "l66"
    /\ IF i < Len(variables)
       THEN /\ i' = i + 1
            /\ src_topic' = RawTopic(variables[i + 1])
            /\ dest_topic' = MeasuredTopic(variables[i + 1])
            /\ pc' = "l50"
       ELSE /\ pc' = "spin"
            /\ UNCHANGED <<i, src_topic, dest_topic>>
    /\ returned' = IF i < Len(variables) THEN returned
                   ELSE [returned EXCEPT !.bind = BindResult(Bindings)]
    /\ UNCHANGED <<variables, pubs, filters, subs, threads, nsent, delivered,
                   processed, published, result>>

\* pub = rospy.Publisher(dest_topic, topic_type, queue_size=10)
NewPublisher ==
    /\ pc = "l50"
    /\ pubs' = Append(pubs, dest_topic)
    /\ pc' = "l51"
    /\ UNCHANGED <<variables, i, src_topic, dest_topic, filters, subs, threads,
                   nsent, delivered, processed, published, result,
                   returned>>

\* f = EWMA(0.3)
NewFilter ==
    /\ pc = "l51"
    /\ filters' = Append(filters, EWMA(ALPHA))
    /\ processed' = Append(processed, <<>>)
    /\ pc' = "l57"
    /\ UNCHANGED <<variables, i, src_topic, dest_topic, pubs, subs, threads,
                   nsent, delivered, published, result,
                   returned>>

\* Closures that share the first filter, or the first publisher.
Closure_SharedFilter(nf, np) == [f |-> 1, pub |-> np]
Closure_SharedPublisher(nf, np) == [f |-> nf, pub |-> 1]

\* The closure of callback: the f and pub of this call of filter_topic.
Closure(nf, np) == [f |-> nf, pub |-> np]

\* The subscription registered first, before line 50 has made the publisher
\* and line 51 the filter its callback uses; line 57 then only returns.
NewSubscriber_First ==
    \/ /\ pc = "l50"
       /\ Len(subs) = Len(pubs)
       /\ subs' = Append(subs, [topic |-> src_topic,
                                cb |-> Closure(Len(filters) + 1, Len(pubs) + 1)])
       /\ delivered' = Append(delivered, <<>>)
       /\ UNCHANGED <<variables, i, pc, src_topic, dest_topic, pubs, filters,
                      threads, nsent, processed, published, result, returned>>
    \/ /\ pc = "l57"
       /\ returned' = [returned EXCEPT !.ft = <<Len(subs), Len(pubs)>>]
       /\ pc' = "l66"
       /\ UNCHANGED <<variables, i, src_topic, dest_topic, pubs, filters, subs,
                      threads, nsent, delivered, processed, published, result>>

\* sub = rospy.Subscriber(src_topic, topic_type, callback); return sub, pub
NewSubscriber ==
    /\ pc = "l57"
    /\ subs' = Append(subs, [topic |-> src_topic,
                             cb |-> Closure(Len(filters), Len(pubs))])
    /\ delivered' = Append(delivered, <<>>)
    /\ returned' = [returned EXCEPT !.ft = <<Len(subs) + 1, Len(pubs)>>]
    /\ pc' = "l66"
    /\ UNCHANGED <<variables, i, src_topic, dest_topic, pubs, filters, threads,
                   nsent, processed, published, result>>

Main == ForLoop \/ NewPublisher \/ NewFilter \/ NewSubscriber

\* ------------------------------------------------------------- the handler
\* The subscriptions on a topic, in creation order.
RECURSIVE SubscribersFrom(_, _)
SubscribersFrom(topic, k) ==
    IF k > Len(subs) THEN <<>>
    ELSE IF subs[k].topic = topic
    THEN <<k>> \o SubscribersFrom(topic, k + 1)
    ELSE SubscribersFrom(topic, k + 1)

Subscribers(topic) == SubscribersFrom(topic, 1)

InSeq(x, s) == \E k \in 1 .. Len(s) : s[k] = x

\* The bus hands message x of raw topic c[1], received on connection c[2], to
\* every callback subscribed to the topic; the receive thread runs them in turn.
Deliver(c, x) ==
    /\ threads[c].pc = "idle"
    /\ nsent < MaxSamples
    /\ Subscribers(RawTopic(c[1])) # <<>>
    /\ threads' = [threads EXCEPT ![c] =
           [pc |-> "l33", cbs |-> Subscribers(RawTopic(c[1])), msg |-> x,
            tmp |-> None, own |-> None]]
    /\ delivered' = [s \in 1 .. Len(delivered) |->
           IF InSeq(s, Subscribers(RawTopic(c[1])))
           THEN Append(delivered[s], x) ELSE delivered[s]]
    /\ nsent' = nsent + 1
    /\ UNCHANGED <<variables, i, pc, src_topic, dest_topic, pubs, filters,
                   subs, processed, published, result,
                   returned>>

\* The thread after its current callback has returned or raised.
NextCallback(t) ==
    IF Len(t.cbs) > 1
    THEN [pc |-> "l33", cbs |-> Tail(t.cbs), msg |-> t.msg, tmp |-> None,
          own |-> None]
    ELSE Idle

CurF(c) == subs[Head(threads[c].cbs)].cb.f
CurPub(c) == subs[Head(threads[c].cbs)].cb.pub

\* if self.average is None:
TestNone(c) ==
    /\ threads[c].pc = "l33"
    /\ threads' = [threads EXCEPT ![c].pc =
           IF filters[CurF(c)].average = None THEN "l34" ELSE "l36"]
    /\ UNCHANGED <<variables, i, pc, src_topic, dest_topic, pubs, filters,
                   subs, nsent, delivered, processed, published, result,
                   returned>>

\* self.average = sample; return
Seed(c) ==
    /\ threads[c].pc = "l34"
    /\ filters' = [filters EXCEPT ![CurF(c)].average = threads[c].msg]
    /\ processed' = [processed EXCEPT ![CurF(c)] = Append(@, threads[c].msg)]
    /\ result' = CallResult(filters'[CurF(c)])
    /\ threads' = [threads EXCEPT ![c].pc = "l55", ![c].own = threads[c].msg]
    /\ UNCHANGED <<variables, i, pc, src_topic, dest_topic, pubs, subs, nsent,
                   delivered, published,
                   returned>>

\* self.a * sample + (1 - self.a) * self.average, evaluated; a non-numeric
\* operand raises and the bus drops the invocation.
LoadBlend(c) ==
    /\ threads[c].pc = "l36"
    /\ threads' = [threads EXCEPT ![c] =
           IF CanBlend(threads[c].msg, filters[CurF(c)].average)
           THEN [@ EXCEPT !.pc = "l36s",
                          !.tmp = Blend(filters[CurF(c)].a, threads[c].msg,
                                        filters[CurF(c)].average)]
           ELSE NextCallback(@)]
    /\ UNCHANGED <<variables, i, pc, src_topic, dest_topic, pubs, filters,
                   subs, nsent, delivered, processed, published, result,
                   returned>>

\* self.average = <that value>; falling off the end of __call__
StoreBlend(c) ==
    /\ threads[c].pc = "l36s"
    /\ filters' = [filters EXCEPT ![CurF(c)].average = threads[c].tmp]
    /\ processed' = [processed EXCEPT ![CurF(c)] = Append(@, threads[c].msg)]
    /\ result' = CallResult(filters'[CurF(c)])
    /\ threads' = [threads EXCEPT ![c].pc = "l55", ![c].tmp = None,
                                  ![c].own = threads[c].tmp]
    /\ UNCHANGED <<variables, i, pc, src_topic, dest_topic, pubs, subs, nsent,
                   delivered, published,
                   returned>>

\* dest_item = topic_type(f.average)
MakeItem(c) ==
    /\ threads[c].pc = "l55"
    /\ threads' = [threads EXCEPT ![c].pc = "l56",
                                  ![c].tmp = filters[CurF(c)].average]
    /\ UNCHANGED <<variables, i, pc, src_topic, dest_topic, pubs, filters,
                   subs, nsent, delivered, processed, published, result,
                   returned>>

\* A publish that sends nothing.
Publish_Silent(c) ==
    /\ threads[c].pc = "l56"
    /\ threads' = [threads EXCEPT ![c] = NextCallback(@)]
    /\ UNCHANGED <<variables, i, pc, src_topic, dest_topic, pubs, filters,
                   subs, nsent, delivered, processed, published, result,
                   returned>>

\* pub.publish(dest_item): a Float64 whose data is no number fails to
\* serialize and nothing is sent.
Publish(c) ==
    /\ threads[c].pc = "l56"
    /\ published' =
           IF IsNum(threads[c].tmp)
           THEN [published EXCEPT ![pubs[CurPub(c)]] =
                    Append(@, [data |-> threads[c].tmp,
                               by |-> Head(threads[c].cbs)])]
           ELSE published
    /\ threads' = [threads EXCEPT ![c] = NextCallback(@)]
    /\ UNCHANGED <<variables, i, pc, src_topic, dest_topic, pubs, filters,
                   subs, nsent, delivered, processed, result,
                   returned>>

Callback(c) ==
    \/ TestNone(c)
    \/ Seed(c)
    \/ LoadBlend(c)
    \/ StoreBlend(c)
    \/ MakeItem(c)
    \/ Publish(c)

\* ---------------------------------------------------------- specifications
\* A topic with one publisher connection: its callbacks never overlap.
SerialConns == {c \in Conns : c[2] = 1}

Next ==
    \/ Main
    \/ \E c \in SerialConns, x \in Samples : Deliver(c, x)
    \/ \E c \in Conns : Callback(c)

Spec == Init /\ [][Next]_vars

\* Every receive thread that has a callback to run keeps being scheduled:
\* weak fairness of each thread's handler steps. A thread has a handler step
\* to take exactly when it is not idle, so WF_vars(Callback(c)) is written
\* out with that state predicate in place of ENABLED <<Callback(c)>>_vars.
Scheduled(c) ==
    \/ []<>(threads[c].pc = "idle")
    \/ []<><<Callback(c)>>_vars

SpecFair == Spec /\ \A c \in Conns : Scheduled(c)

\* Several publishers on one raw topic: callbacks of one subscription overlap.
NextOverlap ==
    \/ Main
    \/ \E c \in Conns, x \in Samples : Deliver(c, x)
    \/ \E c \in Conns : Callback(c)

SpecOverlap == Init /\ [][NextOverlap]_vars

\* The decoder lets a malformed payload through to the handler.
NextMalformed ==
    \/ Main
    \/ \E c \in SerialConns, x \in Samples \cup Malformed : Deliver(c, x)
    \/ \E c \in Conns : Callback(c)

SpecMalformed == Init /\ [][NextMalformed]_vars

\* One fresh filter with any alpha, called from one thread.
InitEWMA ==
    /\ variables = <<>>
    /\ i = 0
    /\ pc = "test"
    /\ src_topic = ""
    /\ dest_topic = ""
    /\ pubs = <<>>
    /\ \E a \in Alphas : filters = <<EWMA(a)>>
    /\ subs = <<>>
    /\ threads = [c \in Conns |-> Idle]
    /\ nsent = 0
    /\ delivered = <<>>
    /\ processed = <<(<<>>)>>
    /\ published = [t \in AllTopics |-> <<>>]
    /\ result = Unset
    /\ returned = [ft |-> <<>>, bind |-> Unset]

Call(sample) ==
    /\ pc = "test"
    /\ Len(processed[1]) < MaxCalls
    /\ ~EWMA_call(filters[1], sample).raised
    /\ filters' = [filters EXCEPT ![1] = EWMA_call(@, sample).f]
    /\ result' = EWMA_call(filters[1], sample).ret
    /\ processed' = [processed EXCEPT ![1] = Append(@, sample)]
    /\ UNCHANGED <<variables, i, pc, src_topic, dest_topic, pubs, subs,
                   threads, nsent, delivered, published,
                   returned>>

NextEWMA == \E sample \in CallSamples : Call(sample)

SpecEWMA == InitEWMA /\ [][NextEWMA]_vars

\* ------------------------------------------------- the recurrence, as stated
\* a_1 = x1, a_i = alpha*x_i + (1-alpha)*a_(i-1); xs is not empty.
RECURSIVE FoldA(_, _)
FoldA(alpha, xs) ==
    IF Len(xs) = 1 THEN xs[1]
    ELSE RAdd(RMul(alpha, xs[Len(xs)]),
              RMul(RSub(One, alpha), FoldA(alpha, SubSeq(xs, 1, Len(xs) - 1))))

\* a_1 .. a_n of xs
FoldValues(alpha, xs) == {FoldA(alpha, SubSeq(xs, 1, k)) : k \in 1 .. Len(xs)}

IsPrefix(s, t) == Len(s) <= Len(t) /\ s = SubSeq(t, 1, Len(s))

Perms(s) ==
    LET n == Len(s)
    IN  {[k \in 1 .. n |-> s[p[k]]] :
            p \in {q \in [1 .. n -> 1 .. n] :
                      \A a, b \in 1 .. n : q[a] = q[b] => a = b}}

Occurrences(v) == {k \in 1 .. Len(variables) : variables[k] = v}

Data(entries) == [k \in 1 .. Len(entries) |-> entries[k].data]

AllIdle == \A c \in Conns : threads[c].pc = "idle"

\* The channel names the naming convention gives each identifier, spelled out.
RawName(v) ==
    CASE v = "air_temperature" -> "air_temperature/raw"
      [] v = "air_humidity" -> "air_humidity/raw"

MeasuredName(v) ==
    CASE v = "air_temperature" -> "air_temperature/measured"
      [] v = "air_humidity" -> "air_humidity/measured"

\* ------------------------------------------------------------------ claims

\* C1: after x1..xn are fed in order to one fresh filter of any alpha in
\* (0,1], the stored average is a_n of the recurrence.
C1_Recurrence ==
    processed[1] # <<>> => filters[1].average = FoldA(filters[1].a, processed[1])

C1_Witness ==
    /\ filters[1].a = Num(1, 10)
    /\ processed[1] = <<Num(10, 1), Num(20, 1), Num(5, 1)>>
    /\ filters[1].average = Num(52, 5)

\* C2: the first update of a fresh filter returns x1, and every later update
\* returns the new average.
C2_UpdateReturnsAverage ==
    processed[1] # <<>> =>
        /\ result = filters[1].average
        /\ Len(processed[1]) = 1 => result = processed[1][1]

\* C3: with alpha = 0.3 and invocations that do not overlap, the i-th value
\* published on the measured channel of a variable bound once is a_i of the
\* samples delivered on its raw channel; [10, 20, 20] gives 10, 13, 15.1.
C3_EndToEnd ==
    \A s \in 1 .. Len(subs) :
        Cardinality(Occurrences(variables[s])) = 1 =>
            LET out == Data(published[MeasuredName(variables[s])])
            IN  /\ Len(out) <= Len(delivered[s])
                /\ \A k \in 1 .. Len(out) :
                       out[k] = FoldA(Num(3, 10), SubSeq(delivered[s], 1, k))
                /\ (delivered[s] = <<Num(10, 1), Num(20, 1), Num(20, 1)>>
                        /\ Len(out) = 3)
                       => out = <<Num(10, 1), Num(13, 1), Num(151, 10)>>

C3_Witness ==
    \E s \in 1 .. Len(subs) :
        /\ Cardinality(Occurrences(variables[s])) = 1
        /\ delivered[s] = <<Num(10, 1), Num(20, 1), Num(20, 1)>>
        /\ Data(published[MeasuredName(variables[s])])
               = <<Num(10, 1), Num(13, 1), Num(151, 10)>>

\* C4: under overlapping invocations of one channel's handler the updates of
\* its filter are serialized: the average is always the sequential fold, in
\* some serial order, of the samples stored so far; no update is lost.
C4_SerializedFold ==
    \A b \in 1 .. Len(filters) :
        processed[b] # <<>> =>
            \E xs \in Perms(processed[b]) :
                filters[b].average = FoldA(filters[b].a, xs)

\* C5: a step of the handler of one binding leaves every other binding's
\* filter (average and alpha) as it was, and each filter's average is a fold
\* of samples delivered to its own binding only.
C5_OwnSamplesOnly ==
    \A b \in 1 .. Len(subs) :
        /\ filters[b].a = Num(3, 10)
        /\ IsPrefix(processed[b], delivered[b])
        /\ processed[b] # <<>> =>
               filters[b].average = FoldA(Num(3, 10), processed[b])

C5_Frame ==
    \A c \in Conns :
        threads'[c] # threads[c] =>
            \A b \in 1 .. Len(filters) :
                (threads[c].pc = "idle" \/ b # Head(threads[c].cbs)) =>
                    /\ filters'[b] = filters[b]
                    /\ processed'[b] = processed[b]

C5_Independence == []C5_OwnSamplesOnly /\ [][C5_Frame]_vars

C5_Witness ==
    /\ Len(subs) = 2
    /\ variables[1] # variables[2]
    /\ processed = <<(<<Num(10, 1)>>), <<Num(10, 1), Num(20, 1)>> >>
    /\ filters[1].average = Num(10, 1)
    /\ filters[2].average = Num(13, 1)

\* C6: every value published on V/measured was produced by the handler of
\* the binding for V from samples delivered on V/raw.
C6_NoCrossContamination ==
    \A t \in AllTopics :
        \A k \in 1 .. Len(published[t]) :
            LET e == published[t][k]
            IN  /\ e.by \in 1 .. Len(subs)
                /\ t = MeasuredName(variables[e.by])
                /\ subs[e.by].topic = RawName(variables[e.by])
                /\ e.data \in FoldValues(Num(3, 10), delivered[e.by])

C6_Witness ==
    /\ variables = <<"air_temperature", "air_humidity">>
    /\ delivered = <<(<<Num(10, 1)>>), <<Num(20, 1)>> >>
    /\ Data(published["air_temperature/measured"]) = <<Num(10, 1)>>
    /\ Data(published["air_humidity/measured"]) = <<Num(20, 1)>>
    /\ AllIdle

\* C7: the binding for identifier V subscribes to exactly V/raw and publishes
\* to exactly V/measured, and nothing is published on any other channel.
C7_ChannelNaming ==
    /\ \A k \in 1 .. Len(subs) : subs[k].topic = RawName(variables[k])
    /\ \A k \in 1 .. Len(pubs) : pubs[k] = MeasuredName(variables[k])
    /\ \A t \in AllTopics :
           published[t] # <<>> =>
               \E k \in 1 .. Len(subs) : t = MeasuredName(variables[k])

C7_Witness ==
    \E k \in 1 .. Len(subs) :
        /\ variables[k] = "air_temperature"
        /\ subs[k].topic = "air_temperature/raw"
        /\ pubs[k] = "air_temperature/measured"
        /\ published["air_temperature/measured"] # <<>>

\* C8: a filter's average is None exactly while it has processed no sample,
\* and is a number from the first sample on.
C8_AverageDefined ==
    \A b \in 1 .. Len(filters) :
        /\ filters[b].average = None <=> processed[b] = <<>>
        /\ processed[b] # <<>> => IsNum(filters[b].average)

C8_Witness ==
    \E b, c \in 1 .. Len(filters) :
        /\ processed[b] = <<>> /\ filters[b].average = None
        /\ Len(processed[c]) = 2 /\ IsNum(filters[c].average)

\* C9: a handler invoked with a malformed payload leaves the stored average
\* as it was and publishes nothing.
C9_Discard ==
    \A c \in Conns :
        (threads[c].pc # "idle" /\ threads[c].msg \in Malformed
            /\ threads'[c] # threads[c]) =>
                /\ filters' = filters
                /\ published' = published

C9_MalformedDiscarded == [][C9_Discard]_vars

\* C10: once bind has run over any input sequence, each identifier in it has
\* exactly one subscription on V/raw, one publication on V/measured and one
\* filter.
C10_OneBindingPerVariable ==
    pc = "spin" =>
        /\ \A k \in 1 .. Len(variables) :
               /\ Cardinality({s \in 1 .. Len(subs) :
                                  subs[s].topic = RawName(variables[k])}) = 1
               /\ Cardinality({p \in 1 .. Len(pubs) :
                                  pubs[p] = MeasuredName(variables[k])}) = 1
        /\ Len(filters) = Cardinality({variables[k] : k \in 1 .. Len(variables)})

\* C11: bind over an empty sequence creates no subscription, no publication
\* and no filter, raises no error, and nothing is ever published afterwards.
C11_EmptyConfiguration ==
    variables = <<>> =>
        /\ subs = <<>> /\ pubs = <<>> /\ filters = <<>>
        /\ pc \in {"l66", "spin"}
        /\ \A t \in AllTopics : published[t] = <<>>
        /\ AllIdle /\ nsent = 0

C11_Witness == variables = <<>> /\ pc = "spin"

\* C12 (as claimed): when bind completes, what it returns is the set of the
\* bindings made, one per processed identifier, and nothing else.
C12_ReturnsBindings ==
    pc = "spin" =>
        /\ returned.bind.kind = "bindings"
        /\ returned.bind.items =
               {[sub |-> k, pub |-> k, filter |-> k] : k \in 1 .. Len(variables)}

\* C12 (amended): bind returns None; the binding of every processed
\* identifier exists all the same (subscription k with its own filter k and
\* publisher k), and the last (sub, pub) pair filter_topic returned was dropped.
C12_ReturnsNothing ==
    pc = "spin" =>
        /\ returned.bind = None
        /\ Len(subs) = Len(variables)
        /\ Len(pubs) = Len(variables)
        /\ Len(filters) = Len(variables)
        /\ \A k \in 1 .. Len(subs) : subs[k].cb = [f |-> k, pub |-> k]
        /\ returned.ft =
               IF variables = <<>> THEN <<>> ELSE <<Len(subs), Len(pubs)>>

C12_Witness ==
    /\ pc = "spin"
    /\ Len(variables) = 2
    /\ Len(subs) = 2
    /\ returned.bind = None

\* |x - y| and x <= y on the rationals
Dist(x, y) == LET z == RSub(x, y) IN Num(Abs(z.n), z.d)
RLe(x, y) == x.n * y.d <= y.n * x.d

Last(xs) == xs[Len(xs)]

\* One update with sample c: a fresh filter lands on c; otherwise the distance
\* to c does not grow, and is exactly (1 - alpha) times what it was.
C13_Step ==
    processed'[1] # processed[1] =>
        LET c == Last(processed'[1])
        IN  IF filters[1].average = None
            THEN filters'[1].average = c
            ELSE /\ RLe(Dist(filters'[1].average, c), Dist(filters[1].average, c))
                 /\ Dist(filters'[1].average, c)
                        = RMul(RSub(One, filters[1].a), Dist(filters[1].average, c))

C13_FreshConstant ==
    (processed[1] # <<>> /\ \A k \in 1 .. Len(processed[1]) :
                               processed[1][k] = processed[1][1])
        => filters[1].average = processed[1][1]

RawCount(v) ==
    IF Subscribers(RawName(v)) = <<>> THEN 0
    ELSE Len(delivered[Head(Subscribers(RawName(v)))])

\* The number of values binding s has published.
RECURSIVE CountBy(_, _)
CountBy(s, entries) ==
    IF entries = <<>> THEN 0
    ELSE (IF Head(entries).by = s THEN 1 ELSE 0) + CountBy(s, Tail(entries))

PublishedBy(s) == CountBy(s, published[MeasuredName(variables[s])])

\* Per binding: one update and one publish for each sample handed to it.
OnePublishPerInvocation ==
    \A s \in 1 .. Len(subs) :
        /\ PublishedBy(s) <= Len(processed[s])
        /\ Len(processed[s]) <= Len(delivered[s])
        /\ AllIdle => PublishedBy(s) = Len(delivered[s])

\* C14: each invocation makes one update and then one publish, so the number
\* of values published on V/measured never exceeds the number of samples
\* delivered on V/raw and equals it once every invocation has completed.
C14_OnePublishPerSample ==
    /\ OnePublishPerInvocation
    /\ \A v \in VarIds :
           /\ Len(published[MeasuredName(v)]) <= RawCount(v)
           /\ AllIdle => Len(published[MeasuredName(v)]) = RawCount(v)

\* C15: under any interleaving with other invocations of the same handler,
\* the value an invocation is about to publish is the average that its own
\* update of the filter produced.
C15_PublishesOwnResult ==
    \A c \in Conns :
        threads[c].pc = "l56" => threads[c].tmp = threads[c].own

\* C16: in the setup of each binding the publisher, then the filter, exist
\* before the subscription is registered, so every handler that can run, and
\* every handler that is running, has its filter and its publisher.
C16_PublisherBeforeSubscription ==
    /\ Len(subs) <= Len(filters)
    /\ Len(filters) <= Len(pubs)
    /\ \A s \in 1 .. Len(subs) :
           /\ subs[s].cb.f \in 1 .. Len(filters)
           /\ subs[s].cb.pub \in 1 .. Len(pubs)
    /\ \A c \in Conns :
           \A k \in 1 .. Len(threads[c].cbs) :
               /\ threads[c].cbs[k] \in 1 .. Len(subs)
               /\ subs[threads[c].cbs[k]].cb.f \in 1 .. Len(filters)
               /\ subs[threads[c].cbs[k]].cb.pub \in 1 .. Len(pubs)

\* A handler is running while the next binding has its publisher only.
C16_Witness ==
    /\ pc = "l51"
    /\ Len(pubs) = 2 /\ Len(filters) = 1 /\ Len(subs) = 1
    /\ \E c \in Conns : threads[c].pc = "l56"

\* No sample is handled while a requested binding is still missing.
C17_NoEarlyHandling ==
    (nsent > 0 \/ ~AllIdle) => Len(subs) = Len(variables)

\* Bindings are never removed, and none is added once bind has completed.
C17_FixedAfterBind ==
    /\ IsPrefix(subs, subs') /\ IsPrefix(pubs, pubs')
    /\ Len(filters) <= Len(filters')
    /\ pc = "spin" =>
           /\ pc' = "spin"
           /\ subs' = subs /\ pubs' = pubs /\ Len(filters') = Len(filters)

\* The bindings are installed one after another, in the order of the input.
C17_InstalledInOrder ==
    /\ Len(subs) <= Len(variables)
    /\ Len(subs) \in {i - 1, i}
    /\ \A k \in 1 .. Len(subs) : subs[k].topic = RawName(variables[k])
    /\ pc = "spin" => Len(subs) = Len(variables)

\* C17 (as claimed): the bindings are installed atomically (no sample is
\* handled while another requested binding is not yet installed), and after
\* bind completes no binding is added or removed.
C17_AtomicInstallation == []C17_NoEarlyHandling /\ [][C17_FixedAfterBind]_vars

\* C17 (amended): the bindings are installed one after another, in input
\* order, a binding already installed being free to handle samples meanwhile;
\* all are installed when bind completes, and from then on no binding is
\* added or removed.
C17_FixedSetInstalledInOrder ==
    []C17_InstalledInOrder /\ [][C17_FixedAfterBind]_vars

\* A value has been published while the second binding is not yet installed;
\* or: bind has completed and samples flow.
C17_Witness ==
    /\ Len(variables) = 2
    /\ Len(subs) = 1
    /\ pc # "spin"
    /\ \E t \in AllTopics : published[t] # <<>>

\* C18: under fair scheduling of the handlers, a binding that has been handed
\* more samples than it has published on its measured channel eventually
\* has a publish there for every sample it was handed.
Behind(s) ==
    /\ s <= Len(subs)
    /\ PublishedBy(s) < Len(delivered[s])

C18_EventualRepublication ==
    \A s \in 1 .. MaxVars :
        Behind(s) ~> (s <= Len(subs) /\ PublishedBy(s) >= Len(delivered[s]))

\* A binding has been handed every sample of the run and has published one
\* value for each.
C18_Witness ==
    \E s \in 1 .. Len(subs) :
        /\ Len(delivered[s]) = MaxSamples
        /\ PublishedBy(s) = MaxSamples
        /\ AllIdle
====
